---- MODULE Spec2Model ----
(***************************************************************************)
(* AutoBlog Assistant: the research-response parser (src/researcher.py),   *)
(* the filename slugifier (src/file_manager.py) and the generation         *)
(* pipeline driven by the Streamlit session (app.py).                      *)
(*                                                                         *)
(* Text is a sequence of one-character strings, so that lower(), strip(),  *)
(* startswith(), regular-expression substitution and slicing are computed  *)
(* the way the Python code computes them.  The one character outside ASCII *)
(* the code names, U+2022, is written "<bullet>".                          *)
(***************************************************************************)
EXTENDS Integers, Sequences, FiniteSets, TLC

VARIABLES
    fnPc,          \* position of the pure-function harness
    fnIn,          \* text handed to parse_research_response / slugify
    fnOut,         \* value returned by the first call
    fnOut2,        \* value returned by slugify applied to fnOut; for the
                   \* parser, the exception it ended with (<<>> if none)
    key,           \* the process environment: <<>> when GOOGLE_API_KEY is
                   \* unset, <<value>> when it is set
    session_state, \* st.session_state, a dict from key names to values
    pc,            \* position of the running script, "idle" between runs
    shown,         \* page rendered by the last finished script run
    clicked,       \* widget values of the event that started this run
    research,      \* local `research` (<<>> unbound, <<dict>> bound)
    blogs,         \* the list `blogs` built by generate_all_blogs
    images,        \* the list `images` built by generate_all_images
    audios,        \* local `audios` (<<>> is None, <<list>> is a list)
    content,       \* local `content` of generate_blog (<<>> unbound)
    script,        \* local `script` of generate_audio_overview (<<>> unbound)
    progress,      \* values passed to progress_bar.progress, in order
    folders,       \* names of the folders existing in the output directory
    calls,         \* calls issued by the current script run, in order
    researchRet,   \* the dict as research_topic returned it (<<>> unbound)
    foldersAtStart \* `folders` when the current pipeline execution began

fnVars == <<fnPc, fnIn, fnOut, fnOut2>>

localVars == <<research, blogs, images, audios, content, script>>

appVars == <<key, session_state, pc, shown, clicked, research, blogs, images,
             audios, content, script, progress, folders, calls,
             researchRet, foldersAtStart>>

vars == <<fnPc, fnIn, fnOut, fnOut2, key, session_state, pc, shown, clicked,
          research, blogs, images, audios, content, script, progress,
          folders, calls, researchRet, foldersAtStart>>

-----------------------------------------------------------------------------
(* Bounds of the model *)

MaxLines == 3        \* lines of a free-form response text
MaxAngleLines == 5   \* body lines under a Blog Angles header
MaxPrefix == 1       \* characters before the long run of a slugify input
MaxSuffix == 2       \* characters after the long run of a slugify input
MaxFolders == 3      \* output folders after which no new execution starts
MaxResearchAngles == 4  \* angles of a research dict given to generate_all_blogs
MaxListLines == 3    \* body lines under a Key Facts or Suggested Sources header
MaxMarkerLines == 4  \* lines of a section given to the angles reducer

-----------------------------------------------------------------------------
(* Characters and Python str methods *)

UpperLetters == <<"A","B","C","D","E","F","G","H","I","J","K","L","M",
                  "N","O","P","Q","R","S","T","U","V","W","X","Y","Z">>

LowerLetters == <<"a","b","c","d","e","f","g","h","i","j","k","l","m",
                  "n","o","p","q","r","s","t","u","v","w","x","y","z">>

DigitSeq == <<"0","1","2","3","4","5","6","7","8","9">>

Range(s) == {s[i] : i \in 1..Len(s)}

Digits == Range(DigitSeq)

Whitespace == {" ", "\t", "\n", "\r"}

Bullet == "<bullet>"

MinOf(S) == CHOOSE x \in S : \A y \in S : x <= y

MaxOf(S) == CHOOSE x \in S : \A y \in S : x >= y

LowerChar(c) ==
    IF \E i \in 1..26 : UpperLetters[i] = c
    THEN LowerLetters[CHOOSE i \in 1..26 : UpperLetters[i] = c]
    ELSE c

\* str.lower()
Lower(s) == [i \in 1..Len(s) |-> LowerChar(s[i])]

\* str.lstrip(chars)
LStrip(s, chars) ==
    LET keep == {i \in 1..Len(s) : s[i] \notin chars}
    IN  IF keep = {} THEN <<>> ELSE SubSeq(s, MinOf(keep), Len(s))

\* str.rstrip(chars)
RStrip(s, chars) ==
    LET keep == {i \in 1..Len(s) : s[i] \notin chars}
    IN  IF keep = {} THEN <<>> ELSE SubSeq(s, 1, MaxOf(keep))

\* str.strip() and str.strip(chars)
Strip(s) == RStrip(LStrip(s, Whitespace), Whitespace)

StripChars(s, chars) == RStrip(LStrip(s, chars), chars)

\* str.startswith(prefix)
StartsWith(s, p) == Len(s) >= Len(p) /\ SubSeq(s, 1, Len(p)) = p

\* `p in s`
Contains(s, p) ==
    \E i \in 0..(Len(s) - Len(p)) : SubSeq(s, i + 1, i + Len(p)) = p

\* the elements of s at the indices in I, in order
RECURSIVE SelectIdx(_, _, _)
SelectIdx(s, I, i) ==
    IF i > Len(s) THEN <<>>
    ELSE (IF i \in I THEN <<s[i]>> ELSE <<>>) \o SelectIdx(s, I, i + 1)

\* sep.join(parts)
RECURSIVE Join(_, _)
Join(parts, sep) ==
    IF parts = <<>> THEN <<>>
    ELSE IF Len(parts) = 1 THEN parts[1]
    ELSE parts[1] \o sep \o Join(Tail(parts), sep)

\* str.split("\n")
RECURSIVE SplitLines(_)
SplitLines(s) ==
    LET nl == {i \in 1..Len(s) : s[i] = "\n"}
    IN  IF nl = {} THEN <<s>>
        ELSE <<SubSeq(s, 1, MinOf(nl) - 1)>>
             \o SplitLines(SubSeq(s, MinOf(nl) + 1, Len(s)))

\* str(n) for the one-digit naturals the code formats
DigitStr(n) == <<DigitSeq[n + 1]>>

SeqsUpTo(S, n) == UNION {[1..k -> S] : k \in 0..n}

-----------------------------------------------------------------------------
(* src/researcher.py *)

KwSummary == <<"r","e","s","e","a","r","c","h"," ","s","u","m","m","a","r","y">>
KwFacts == <<"k","e","y"," ","f","a","c","t","s">>
KwAngles == <<"b","l","o","g"," ","a","n","g","l","e","s">>
KwSources == <<"s","u","g","g","e","s","t","e","d"," ","s","o","u","r","c","e","s">>
PerspectivePrefix == <<"P","e","r","s","p","e","c","t","i","v","e"," ">>
PlaceholderDesc == <<"A","n"," ","a","l","t","e","r","n","a","t","i","v","e"," ","v","i","e","w","p","o","i","n","t"," ","o","n"," ","t","h","e"," ","t","o","p","i","c",".">>

ListPrefixChars == {"-", "*", Bullet, "."} \cup Digits \cup {")", ":", " "}

TitleLeadChars == {"1", "2", "3", ".", "#", "*", "-", " "}

DescLeadChars == {"-", "*", Bullet, " "}

\* line.startswith(("-", "*", bullet)) or numbered prefix, researcher.py:130
IsListItem(line) ==
    \/ Len(line) >= 1 /\ line[1] \in {"-", "*", Bullet}
    \/ Len(line) > 2 /\ line[1] \in Digits /\ line[2] \in {".", ")", ":"}

\* line.startswith(("1.", "2.", "3.", "**", "###")), researcher.py:150
IsTitleLine(line) ==
    \/ StartsWith(line, <<"1", ".">>)
    \/ StartsWith(line, <<"2", ".">>)
    \/ StartsWith(line, <<"3", ".">>)
    \/ StartsWith(line, <<"*", "*">>)
    \/ StartsWith(line, <<"#", "#", "#">>)

\* the condition at researcher.py:130 evaluated without len(line) > 2
IndexOutOfRange_NoLenGuard(line) ==
    /\ ~(Len(line) >= 1 /\ line[1] \in {"-", "*", Bullet})
    /\ \/ Len(line) < 1
       \/ line[1] \in Digits /\ Len(line) < 2

\* line[0] or line[1] at researcher.py:130 is evaluated beyond the end of
\* the line (IndexError): `or` and `and` evaluate left to right and stop
\* as soon as the result is known
IndexOutOfRange(line) ==
    /\ ~(Len(line) >= 1 /\ line[1] \in {"-", "*", Bullet})
    /\ Len(line) > 2
    /\ \/ Len(line) < 1
       \/ line[1] \in Digits /\ Len(line) < 2

SectionText(lines) == Strip(Join(lines, <<"\n">>))

\* process_section raises instead of returning
SectionRaises(section_type, lines) ==
    /\ section_type \in {"key_facts", "sources"}
    /\ \E i \in 1..Len(SplitLines(SectionText(lines))) :
          IndexOutOfRange(Strip(SplitLines(SectionText(lines))[i]))

\* the summary branch of process_section
ProcessSummary(lines) == SectionText(lines)

\* the key_facts / sources branch of process_section
RECURSIVE ListItems(_)
ListItems(lines) ==
    IF lines = <<>> THEN <<>>
    ELSE LET line == Strip(Head(lines))
             item == Strip(LStrip(line, ListPrefixChars))
         IN  (IF IsListItem(line) /\ item # <<>> THEN <<item>> ELSE <<>>)
             \o ListItems(Tail(lines))

ProcessList(lines) ==
    LET items == ListItems(lines)
        text == SectionText(lines)
    IN  IF items # <<>> THEN items
        ELSE IF text # <<>> THEN <<text>> ELSE <<>>

EmptyAngle == [title |-> <<>>, description |-> <<>>]

\* one iteration of the loop at researcher.py:141-163
AngleStep(st, raw) ==
    LET line == Strip(raw)
        cur == st.current_angle
        closed == IF cur.title # <<>> THEN Append(st.angles, cur)
                  ELSE st.angles
    IN  IF line = <<>>
        THEN IF cur.title # <<>>
             THEN [angles |-> closed, current_angle |-> EmptyAngle]
             ELSE st
        ELSE IF IsTitleLine(line)
        THEN [angles |-> closed,
              current_angle |->
                  [title |-> Strip(RStrip(Strip(LStrip(line, TitleLeadChars)),
                                          {"*"})),
                   description |-> <<>>]]
        ELSE IF cur.title # <<>>
        THEN LET desc_line == Strip(LStrip(line, DescLeadChars))
             IN  [st EXCEPT !.current_angle.description =
                     IF cur.description # <<>>
                     THEN cur.description \o <<" ">> \o desc_line
                     ELSE desc_line]
        ELSE st

RECURSIVE AngleScan(_, _)
AngleScan(st, lines) ==
    IF lines = <<>> THEN st
    ELSE AngleScan(AngleStep(st, Head(lines)), Tail(lines))

\* the reducer appending the last angle whether or not it has a title
ParsedAngles_KeepUntitled(lines) ==
    LET st == AngleScan([angles |-> <<>>, current_angle |-> EmptyAngle], lines)
    IN  Append(st.angles, st.current_angle)

\* angles parsed before padding, researcher.py:138-167
ParsedAngles(lines) ==
    LET st == AngleScan([angles |-> <<>>, current_angle |-> EmptyAngle], lines)
    IN  IF st.current_angle.title # <<>>
        THEN Append(st.angles, st.current_angle)
        ELSE st.angles

\* while len(angles) < 3: append placeholder, researcher.py:170-174
RECURSIVE PadAngles(_)
PadAngles(angles) ==
    IF Len(angles) < 3
    THEN PadAngles(Append(angles,
             [title |-> PerspectivePrefix \o DigitStr(Len(angles) + 1),
              description |-> PlaceholderDesc]))
    ELSE angles

\* the angles branch without the padding loop
ProcessAngles_NoPad(lines) ==
    SubSeq(ParsedAngles(lines), 1, MinOf({3, Len(ParsedAngles(lines))}))

\* the angles branch of process_section
ProcessAngles(lines) == SubSeq(PadAngles(ParsedAngles(lines)), 1, 3)

process_section(section_type, lines) ==
    CASE section_type = "summary" -> ProcessSummary(lines)
      [] section_type \in {"key_facts", "sources"} -> ProcessList(lines)
      [] section_type = "angles" -> ProcessAngles(lines)
      [] OTHER -> SectionText(lines)

EmptySections ==
    [summary |-> <<>>, key_facts |-> <<>>, angles |-> <<>>, sources |-> <<>>]

\* header detection that does not look at the first character
HeaderOf_AnyLine(line) ==
    LET line_lower == Strip(Lower(line))
    IN  IF Contains(line_lower, KwSummary) THEN "summary"
        ELSE IF Contains(line_lower, KwFacts) THEN "key_facts"
        ELSE IF Contains(line_lower, KwAngles) THEN "angles"
        ELSE IF Contains(line_lower, KwSources) THEN "sources"
        ELSE "none"

\* the header a line opens, "none" if it is no section header
HeaderOf(line) ==
    LET line_lower == Strip(Lower(line))
        hash == StartsWith(line, <<"#">>)
    IN  IF Contains(line_lower, KwSummary) /\ hash THEN "summary"
        ELSE IF Contains(line_lower, KwFacts) /\ hash THEN "key_facts"
        ELSE IF Contains(line_lower, KwAngles) /\ hash THEN "angles"
        ELSE IF Contains(line_lower, KwSources) /\ hash THEN "sources"
        ELSE "none"

\* if current_section and current_content: sections[...] = process_section
Flush(st) ==
    IF st.current_section # "none" /\ st.current_content # <<>>
    THEN [st.sections EXCEPT ![st.current_section] =
             process_section(st.current_section, st.current_content)]
    ELSE st.sections

\* one iteration of the loop at researcher.py:83-108
ParseStep(st, line) ==
    IF HeaderOf(line) # "none"
    THEN [sections |-> Flush(st),
          current_section |-> HeaderOf(line),
          current_content |-> <<>>]
    ELSE IF st.current_section # "none"
    THEN [st EXCEPT !.current_content = Append(@, line)]
    ELSE st

\* the flush of the open section raises
FlushRaises(st) ==
    /\ st.current_section # "none"
    /\ st.current_content # <<>>
    /\ SectionRaises(st.current_section, st.current_content)

\* a flush raises while the lines are scanned, or at the end of the input
RECURSIVE ScanRaises(_, _)
ScanRaises(st, lines) ==
    IF lines = <<>> THEN FlushRaises(st)
    ELSE \/ HeaderOf(Head(lines)) # "none" /\ FlushRaises(st)
         \/ ScanRaises(ParseStep(st, Head(lines)), Tail(lines))

\* parse_research_response(response) ends with an exception
ParseRaises(response) ==
    ScanRaises([sections |-> EmptySections,
                current_section |-> "none",
                current_content |-> <<>>],
               SplitLines(response))

RECURSIVE ParseScan(_, _)
ParseScan(st, lines) ==
    IF lines = <<>> THEN st
    ELSE ParseScan(ParseStep(st, Head(lines)), Tail(lines))

parse_research_response(response) ==
    Flush(ParseScan([sections |-> EmptySections,
                     current_section |-> "none",
                     current_content |-> <<>>],
                    SplitLines(response)))

-----------------------------------------------------------------------------
(* src/file_manager.py: slugify *)

SlugMaxLen == 50

Untitled == <<"u","n","t","i","t","l","e","d">>

SlugChars == Range(LowerLetters) \cup Digits \cup {"-"}

IsSpaceOrUnderscore(c) == c \in Whitespace \cup {"_"}

\* re.sub(r'[\s_]+', '-', text)
ReplaceSpaceRuns(s) ==
    LET t == [i \in 1..Len(s) |->
                 IF IsSpaceOrUnderscore(s[i]) THEN "-" ELSE s[i]]
        I == {i \in 1..Len(s) :
                 \/ ~IsSpaceOrUnderscore(s[i])
                 \/ i = 1
                 \/ ~IsSpaceOrUnderscore(s[i - 1])}
    IN  SelectIdx(t, I, 1)

\* re.sub(r'[^a-z0-9\-]', '', text)
RemoveNonSlugChars(s) == SelectSeq(s, LAMBDA c : c \in SlugChars)

\* re.sub(r'-+', '-', text)
CollapseHyphens(s) ==
    SelectIdx(s, {i \in 1..Len(s) : s[i] # "-" \/ i = 1 \/ s[i - 1] # "-"}, 1)

\* slugify without the length limit
Truncate_NoLimit(s) == s

\* text[:50]
Truncate(s) == SubSeq(s, 1, IF Len(s) < SlugMaxLen THEN Len(s) ELSE SlugMaxLen)

\* the text after the cleaning steps of slugify, before the length limit
CleanedSlug(text) ==
    StripChars(CollapseHyphens(RemoveNonSlugChars(ReplaceSpaceRuns(Lower(text)))),
               {"-"})

slugify(text) ==
    IF CleanedSlug(text) # <<>> THEN Truncate(CleanedSlug(text)) ELSE Untitled

-----------------------------------------------------------------------------
(* Inputs of the pure functions *)

HdrSummary == <<"#","#"," ","R","e","s","e","a","r","c","h"," ","S","u","m","m","a","r","y">>
HdrFacts == <<"#","#"," ","K","e","y"," ","F","a","c","t","s">>
HdrAngles == <<"#","#"," ","B","l","o","g"," ","A","n","g","l","e","s">>
HdrSources == <<"#","#"," ","S","u","g","g","e","s","t","e","d"," ","S","o","u","r","c","e","s">>
LnNoHash == <<"B","l","o","g"," ","A","n","g","l","e","s",":">>
LnOtherHdr == <<"#","#"," ","N","o","t","e","s">>
LnAngle1 == <<"#","#","#"," ","1","."," ","B","o","l","d"," ","A","n","g","l","e">>
LnAngle2 == <<"*","*","O","t","h","e","r","*","*">>
LnAngle3 == <<"3","."," ","T","h","i","r","d">>
LnDetail == <<"S","o","m","e"," ","d","e","t","a","i","l",".">>
LnBullet == <<"-"," ","F","a","c","t"," ","o","n","e">>
LnMarkerOnly == <<"#","#","#">>
LnNumbered == <<"1",")"," ","x">>
LnBlank == <<>>
LnNumFact == <<"-"," ","5"," ","t","i","p","s">>
LnDash == <<"-">>
LnDigit == <<"5">>
LnAngleNum == <<"1","."," ","2","0","2","4"," ","T","r","e","n","d","s">>
HdrUpper == <<"#","K","E","Y"," ","F","A","C","T","S">>
HdrBoth == <<"#"," ","B","l","o","g"," ","A","n","g","l","e","s",","," ","K","e","y"," ","F","a","c","t","s">>
LnIndentedHdr == <<" ","#","#"," ","K","e","y"," ","F","a","c","t","s">>
LnTwoChars == <<"1",".">>

ResponseLines ==
    {HdrSummary, HdrFacts, HdrAngles, HdrSources, LnNoHash, LnOtherHdr,
     LnAngle1, LnAngle2, LnAngle3, LnDetail, LnBullet, LnMarkerOnly,
     LnNumbered, LnBlank}

AngleBodyLines == {LnAngle1, LnAngleNum, LnDetail, LnBullet, LnBlank}

\* free-form texts of up to MaxLines lines
ShortTexts == {Join(ls, <<"\n">>) : ls \in SeqsUpTo(ResponseLines, MaxLines)}

\* a Blog Angles header followed by up to MaxAngleLines body lines
AngleTexts ==
    {Join(<<HdrAngles>> \o ls, <<"\n">>) :
        ls \in SeqsUpTo(AngleBodyLines, MaxAngleLines)}

\* the lines of a list section: items, plain text, blank, prefix-only, one-
\* and two-character lines
ListBodyLines ==
    {LnBullet, LnNumbered, LnNumFact, LnDetail, LnBlank, LnDash, LnDigit,
     LnTwoChars}

\* a Key Facts or Suggested Sources header followed by up to MaxListLines
\* body lines
ListTexts ==
    {Join(<<h>> \o ls, <<"\n">>) :
        h \in {HdrFacts, HdrSources},
        ls \in SeqsUpTo(ListBodyLines, MaxListLines)}

\* the lines fed to the parser loop one at a time: headers in several
\* spellings, lines that only look like headers, body lines
ScanLines ==
    {HdrSummary, HdrFacts, HdrAngles, HdrSources, HdrUpper, HdrBoth,
     LnIndentedHdr, LnNoHash, LnOtherHdr, LnBullet, LnAngle1, LnBlank}

ScanInputs == SeqsUpTo(ScanLines, MaxLines)

TextInputs == ShortTexts \cup AngleTexts \cup ListTexts

SlugAlphabet == {"a", "B", "7", "-", " ", "_", "!"}

RunLengths == {0} \cup ((SlugMaxLen - 3)..(SlugMaxLen + 1))

\* prefix, a run of one letter around the length limit, suffix
SlugInputs ==
    {p \o [i \in 1..n |-> "a"] \o q :
        p \in SeqsUpTo(SlugAlphabet, MaxPrefix),
        n \in RunLengths,
        q \in SeqsUpTo(SlugAlphabet, MaxSuffix)}

-----------------------------------------------------------------------------
(* The session before the first script run *)

None == "None"

EmptyDict == [k \in {} |-> None]

Has(d, k) == k \in DOMAIN d

\* d[k] = v
Put(d, k, v) == [x \in DOMAIN d \cup {k} |-> IF x = k THEN v ELSE d[x]]

\* d.get(k, default)
Get(d, k, default) == IF k \in DOMAIN d THEN d[k] ELSE default

NoClick ==
    [button |-> "none", topic |-> <<>>, image_style |-> "realistic",
     generate_audio |-> FALSE]

AppStart ==
    /\ session_state = EmptyDict
    /\ pc = "idle"
    /\ shown = "none"
    /\ clicked = NoClick
    /\ research = <<>>
    /\ blogs = <<>>
    /\ images = <<>>
    /\ audios = <<>>
    /\ content = <<>>
    /\ script = <<>>
    /\ progress = <<>>
    /\ calls = <<>>
    /\ researchRet = <<>>
    /\ foldersAtStart = {}

-----------------------------------------------------------------------------
(* src/blog_generator.py *)

UntitledBlogPost == <<"U","n","t","i","t","l","e","d"," ","B","l","o","g"," ","P","o","s","t">>
BlogPerspectiveInfix == <<" ","-"," ","P","e","r","s","p","e","c","t","i","v","e"," ">>
BlogPlaceholderDesc == <<"A","n"," ","a","l","t","e","r","n","a","t","i","v","e"," ","e","x","p","l","o","r","a","t","i","o","n"," ","o","f"," ","t","h","i","s"," ","t","o","p","i","c",".">>

IsH1(line) == StartsWith(line, <<"#", " ">>) /\ ~StartsWith(line, <<"#", "#", " ">>)

extract_title(text) ==
    LET lines == SplitLines(Strip(text))
        hits == {i \in 1..Len(lines) : IsH1(Strip(lines[i]))}
    IN  IF hits = {} THEN UntitledBlogPost
        ELSE Strip(SubSeq(Strip(lines[MinOf(hits)]), 3,
                          Len(Strip(lines[MinOf(hits)]))))

\* len(content.split())
WordCount(text) ==
    Cardinality({i \in 1..Len(text) :
        text[i] \notin Whitespace /\ (i = 1 \/ text[i - 1] \in Whitespace)})

\* while len(angles) < 3: angles.append(...), blog_generator.py:187-191
RECURSIVE EnsureThreeAngles(_, _)
EnsureThreeAngles(angles, t) ==
    IF Len(angles) < 3
    THEN EnsureThreeAngles(Append(angles,
             [title |-> t \o BlogPerspectiveInfix \o DigitStr(Len(angles) + 1),
              description |-> BlogPlaceholderDesc]), t)
    ELSE angles

-----------------------------------------------------------------------------
(* src/file_manager.py: folders and files *)

BlogPrefix == <<"b","l","o","g","_">>
ImagePrefix == <<"i","m","a","g","e","_">>
MdExt == <<".","m","d">>
PngExt == <<".","p","n","g">>
ImageWord == <<"i","m","a","g","e">>
Readme == <<"R","E","A","D","M","E",".","m","d">>

\* get_output_dir raises TypeError when base_path is a non-empty list:
\* Path(base_path) accepts str or os.PathLike only.  base_path is <<>> for
\* None and <<list>> for a list.
OutputDirRaises(base_path) == base_path # <<>> /\ base_path[1] # <<>>

\* create_topic_folder numbering a taken slug by the count of existing folders
create_topic_folder_CountSuffix(t, existing) ==
    IF slugify(t) \in existing
    THEN slugify(t) \o <<"-">> \o DigitStr(Cardinality(existing))
    ELSE slugify(t)

\* the folder name create_topic_folder picks, given the existing folders
create_topic_folder(t, existing) ==
    LET topic_slug == slugify(t)
        Numbered(n) == topic_slug \o <<"-">> \o DigitStr(n)
        counter == MinOf({n \in 1..(Cardinality(existing) + 1) :
                             Numbered(n) \notin existing})
    IN  IF topic_slug \in existing THEN Numbered(counter) ELSE topic_slug

BlogFileName(blog, index) ==
    BlogPrefix \o DigitStr(index) \o <<"_">> \o slugify(blog.title) \o MdExt

ImageFileName(blog, index) ==
    ImagePrefix \o DigitStr(index) \o <<"_">>
        \o (IF blog.title # <<>> THEN slugify(blog.title) ELSE ImageWord)
        \o PngExt

\* the dict save_outputs returns; an image that is None has no path
SavedOutputs(folder, bs, imgs) ==
    [folder |-> folder,
     blogs |-> [i \in 1..Len(bs) |-> BlogFileName(bs[i], i)],
     images |-> [i \in 1..MinOf({Len(bs), Len(imgs)}) |->
                    IF imgs[i] = None THEN <<>> ELSE ImageFileName(bs[i], i)]]

FilesWritten(saved) ==
    {<<saved.folder, saved.blogs[i]>> : i \in 1..Len(saved.blogs)}
    \cup {<<saved.folder, saved.images[i]>> :
             i \in {j \in 1..Len(saved.images) : saved.images[j] # <<>>}}
    \cup {<<saved.folder, Readme>>}

-----------------------------------------------------------------------------
(* app.py: the Streamlit script *)

YourPrefix == <<"y","o","u","r","-">>
PlaceholderKey == <<"y","o","u","r","-","a","p","i","-","k","e","y","-","h","e","r","e">>
RealKey == <<"A","I","z","a","S","y">>
ExampleTopic == <<"H","e","a","l","t","h","y"," ","m","e","a","l"," ","p","r","e","p"," ","i","d","e","a","s">>
TopicA == <<"A","i"," ","t","i","p","s">>
TopicB == <<" ","a","i","_","t","i","p","s","!">>
TopicBlank == <<" ">>
TitledContent == <<"#"," ","A","i"," ","T","i","p","s","\n","B","o","d","y"," ","t","e","x","t",".">>
MetaText == <<" ","M","e","t","a"," ","t","e","x","t","."," ">>
ScriptText == <<"A","l","e","x",":"," ","h","i">>

\* the output directory when the app starts: empty, or holding a folder kept
\* from earlier sessions
OutputDirStates == {{}, {slugify(TopicA) \o <<"-", "2">>}}

KeyValues == {<<>>, <<<<>>>>, <<PlaceholderKey>>, <<RealKey>>}

TopicInputs == {TopicA, TopicB, TopicBlank}

ImageStyles == {"artistic"}

\* texts the research call may return
ResearchResponses ==
    {Join(<<HdrSummary, LnDetail, HdrFacts, LnBullet>>, <<"\n">>),
     Join(<<HdrSummary, LnDetail, HdrAngles, LnAngle1, LnDetail, LnBlank,
            LnAngle2, HdrSources, LnBullet>>, <<"\n">>)}

BlogContents == {TitledContent}

ImageBytes == {"png"}

AudioBytes == {"wav"}

\* os.getenv("GOOGLE_API_KEY", "")
Getenv(env) == IF env = <<>> THEN <<>> ELSE env[1]

\* check_api_keys without the test for the placeholder value
check_api_keys_NoPlaceholder(env) ==
    IF Getenv(env) = <<>> THEN <<"GOOGLE_API_KEY">> ELSE <<>>

check_api_keys(env) ==
    IF Getenv(env) = <<>> \/ StartsWith(Getenv(env), YourPrefix)
    THEN <<"GOOGLE_API_KEY">>
    ELSE <<>>

Call(c, i, ok, arg) == [call |-> c, item |-> i, ok |-> ok, arg |-> arg]

want_audio == Get(session_state, "generate_audio", FALSE)

\* a stage reporting its own completion percentage, not its share of the bar
Pct_OfStage(base, current, total, span) == (current * 100) \div total

\* pct = base + int((current / total) * span)
Pct(base, current, total, span) == base + (current * span) \div total

CanStart == Cardinality(folders) < MaxFolders

ResetLocals ==
    /\ research' = <<>>
    /\ blogs' = <<>>
    /\ images' = <<>>
    /\ audios' = <<>>
    /\ content' = <<>>
    /\ script' = <<>>

\* the script run ends having rendered `page`
EndRun(page) ==
    /\ pc' = "idle"
    /\ shown' = page
    /\ clicked' = NoClick
    /\ ResetLocals
    /\ calls' = <<>>
    /\ progress' = <<>>
    /\ researchRet' = <<>>

\* st.rerun(): the script run ends and a new one starts at once
StRerun ==
    /\ pc' = "main"
    /\ clicked' = NoClick
    /\ ResetLocals
    /\ UNCHANGED <<shown, calls, progress, researchRet>>

\* control reaches the except clause of show_generating_page
ToExcept ==
    /\ pc' = "except"
    /\ UNCHANGED <<session_state, shown, clicked, progress, folders,
                   researchRet, foldersAtStart, key>>

(* User events, possible between script runs *)

\* a rerun without a button press: first load, an edited widget, the
\* Rerun command
Rerun ==
    /\ pc = "idle"
    /\ Get(session_state, "step", "input") = "generating" => CanStart
    /\ pc' = "main"
    /\ clicked' = NoClick
    /\ UNCHANGED <<key, session_state, shown, localVars, progress, folders, calls, researchRet, foldersAtStart>>

ClickGenerate ==
    /\ pc = "idle"
    /\ shown = "input"
    /\ CanStart
    /\ \E t \in TopicInputs, s \in ImageStyles, a \in BOOLEAN :
          clicked' = [button |-> "generate", topic |-> t, image_style |-> s,
                      generate_audio |-> a]
    /\ pc' = "main"
    /\ UNCHANGED <<key, session_state, shown, localVars, progress, folders, calls, researchRet, foldersAtStart>>

ClickExample ==
    /\ pc = "idle"
    /\ shown = "input"
    /\ CanStart
    /\ clicked' = [NoClick EXCEPT !.button = "example", !.topic = ExampleTopic]
    /\ pc' = "main"
    /\ UNCHANGED <<key, session_state, shown, localVars, progress, folders, calls, researchRet, foldersAtStart>>

ClickTryAgain ==
    /\ pc = "idle"
    /\ shown = "error"
    /\ CanStart
    /\ clicked' = [NoClick EXCEPT !.button = "try_again"]
    /\ pc' = "main"
    /\ UNCHANGED <<key, session_state, shown, localVars, progress, folders, calls, researchRet, foldersAtStart>>

ClickNewTopic ==
    /\ pc = "idle"
    /\ shown = "results"
    /\ clicked' = [NoClick EXCEPT !.button = "new_topic"]
    /\ pc' = "main"
    /\ UNCHANGED <<key, session_state, shown, localVars, progress, folders, calls, researchRet, foldersAtStart>>

\* the environment the next script run will see
EnvChange ==
    /\ pc = "idle"
    /\ key' \in KeyValues \ {key}
    /\ UNCHANGED <<session_state, pc, shown, clicked, localVars, progress,
                   folders, calls, researchRet, foldersAtStart>>

(* The script *)

main ==
    /\ pc = "main"
    /\ LET s1 == IF Has(session_state, "step") THEN session_state
                 ELSE Put(session_state, "step", "input")
           s2 == IF Has(s1, "results") THEN s1 ELSE Put(s1, "results", <<>>)
       IN  /\ session_state' = s2
           /\ IF check_api_keys(key) # <<>>
              THEN /\ pc' = "idle"
                   /\ shown' = "keyerror"
                   /\ clicked' = NoClick
                   /\ ResetLocals
              ELSE /\ pc' = CASE s2["step"] = "input" -> "input_page"
                              [] s2["step"] = "generating" -> "generating_page"
                              [] s2["step"] = "results" -> "results_page"
                              [] OTHER -> "idle"
                   /\ UNCHANGED <<shown, clicked, localVars>>
    /\ calls' = <<>>
    /\ progress' = <<>>
    /\ researchRet' = <<>>
    /\ UNCHANGED <<key, folders, foldersAtStart>>

show_input_page ==
    /\ pc = "input_page"
    /\ IF clicked.button = "generate" /\ Strip(clicked.topic) # <<>>
       THEN /\ session_state' =
                  Put(Put(Put(Put(session_state,
                      "topic", Strip(clicked.topic)),
                      "image_style", clicked.image_style),
                      "generate_audio", clicked.generate_audio),
                      "step", "generating")
            /\ StRerun
       ELSE IF clicked.button = "example"
       THEN /\ session_state' =
                  Put(Put(Put(session_state,
                      "topic", clicked.topic),
                      "image_style", "realistic"),
                      "step", "generating")
            /\ StRerun
       ELSE /\ EndRun("input")
            /\ UNCHANGED session_state
    /\ UNCHANGED <<key, folders, foldersAtStart>>

show_generating_page ==
    /\ pc = "generating_page"
    /\ progress' = <<0, 10>>
    /\ foldersAtStart' = folders
    /\ pc' = "research"
    /\ UNCHANGED <<key, session_state, shown, clicked, localVars, folders, calls, researchRet>>

research_topic ==
    /\ pc = "research"
    /\ \/ /\ calls' = Append(calls, Call("research", 0, FALSE, <<>>))
          /\ ToExcept
          /\ UNCHANGED localVars
       \/ \E text \in ResearchResponses :
            LET result == parse_research_response(text)
                dict == [summary |-> result.summary,
                         key_facts |-> result.key_facts,
                         angles |-> result.angles,
                         sources |-> result.sources,
                         raw_response |-> text]
            IN  /\ calls' = Append(calls, Call("research", 0, TRUE, <<>>))
                /\ research' = <<dict>>
                /\ researchRet' = <<dict>>
                /\ progress' = progress \o <<20, 25>>
                /\ pc' = "blogs"
                /\ UNCHANGED <<key, session_state, shown, clicked, blogs,
                               images, audios, content, script, folders, foldersAtStart>>

\* generate_all_blogs drafting from placeholder angles only
generate_all_blogs_OnlyPlaceholders ==
    /\ pc = "blogs"
    /\ research' = <<[research[1] EXCEPT !.angles =
                         EnsureThreeAngles(<<>>, session_state["topic"])]>>
    /\ blogs' = <<>>
    /\ progress' = Append(progress, Pct(25, 1, 3, 25))
    /\ pc' = "content"
    /\ UNCHANGED <<key, session_state, shown, clicked, images, audios,
                   content, script, folders, calls, researchRet,
                   foldersAtStart>>

\* generate_all_blogs up to the first drafting call: `angles` is the list
\* object held by the research dict, and append() changes it in place
generate_all_blogs ==
    /\ pc = "blogs"
    /\ research' = <<[research[1] EXCEPT !.angles =
                         EnsureThreeAngles(@, session_state["topic"])]>>
    /\ blogs' = <<>>
    /\ progress' = Append(progress, Pct(25, 1, 3, 25))
    /\ pc' = "content"
    /\ UNCHANGED <<key, session_state, shown, clicked, images, audios,
                   content, script, folders, calls, researchRet,
                   foldersAtStart>>

\* generate_blog: the content draft
generate_blog ==
    /\ pc = "content"
    /\ LET i == Len(blogs) + 1
           angle == research[1].angles[i]
       IN  \/ /\ calls' = Append(calls, Call("content", i, FALSE, angle))
              /\ ToExcept
              /\ UNCHANGED localVars
           \/ \E c \in BlogContents :
                /\ calls' = Append(calls, Call("content", i, TRUE, angle))
                /\ content' = <<c>>
                /\ pc' = "meta"
                /\ UNCHANGED <<key, session_state, shown, clicked, research,
                               blogs, images, audios, script, progress,
                               folders, researchRet, foldersAtStart>>

\* generate_blog going on with an empty description when the
\* meta-description call fails
generate_meta_description_Swallow ==
    /\ pc = "meta"
    /\ LET i == Len(blogs) + 1
       IN  /\ \E ok \in BOOLEAN :
                /\ calls' = Append(calls, Call("meta", i, ok, <<>>))
                /\ blogs' = Append(blogs,
                      [title |-> extract_title(content[1]),
                       content |-> content[1],
                       meta_description |->
                           IF ok THEN Strip(MetaText) ELSE <<>>,
                       word_count |-> WordCount(content[1])])
           /\ content' = <<>>
           /\ IF i < 3
              THEN /\ progress' = Append(progress, Pct(25, i + 1, 3, 25))
                   /\ pc' = "content"
              ELSE /\ progress' = progress \o <<50, 55, Pct(55, 1, 3, 10)>>
                   /\ pc' = "image"
           /\ UNCHANGED <<key, session_state, shown, clicked, research,
                          images, audios, script, folders,
                          researchRet, foldersAtStart>>

\* generate_meta_description, the rest of generate_blog and the loop step
generate_meta_description ==
    /\ pc = "meta"
    /\ LET i == Len(blogs) + 1
       IN  \/ /\ calls' = Append(calls, Call("meta", i, FALSE, <<>>))
              /\ ToExcept
              /\ UNCHANGED localVars
           \/ /\ calls' = Append(calls, Call("meta", i, TRUE, <<>>))
              /\ blogs' = Append(blogs,
                    [title |-> extract_title(content[1]),
                     content |-> content[1],
                     meta_description |-> Strip(MetaText),
                     word_count |-> WordCount(content[1])])
              /\ content' = <<>>
              /\ IF i < 3
                 THEN /\ progress' = Append(progress, Pct(25, i + 1, 3, 25))
                      /\ pc' = "content"
                 ELSE /\ progress' = progress \o <<50, 55, Pct(55, 1, 3, 10)>>
                      /\ pc' = "image"
              /\ UNCHANGED <<key, session_state, shown, clicked, research,
                             images, audios, script, folders,
                             researchRet, foldersAtStart>>

\* show_generating_page generating audio whatever the checkbox says
AfterImages_AlwaysAudio ==
    /\ progress' = progress \o <<65, 70, Pct(70, 1, 3, 10)>>
    /\ audios' = << <<>> >>
    /\ pc' = "script"

\* where show_generating_page goes once the images are done
AfterImages ==
    IF want_audio
    THEN /\ progress' = progress \o <<65, 70, Pct(70, 1, 3, 10)>>
         /\ audios' = << <<>> >>
         /\ pc' = "script"
    ELSE /\ progress' = progress \o <<65, 90>>
         /\ audios' = <<>>
         /\ pc' = "save"

\* generate_all_images without the try/except around generate_image
generate_image_NoCatch ==
    /\ pc = "image"
    /\ LET i == Len(images) + 1
       IN  \/ /\ calls' = Append(calls, Call("image", i, FALSE, <<>>))
              /\ ToExcept
              /\ UNCHANGED localVars
           \/ \E b \in ImageBytes :
                /\ calls' = Append(calls, Call("image", i, TRUE, <<>>))
                /\ images' = Append(images, b)
                /\ IF i < Len(blogs)
                   THEN /\ progress' =
                             Append(progress, Pct(55, i + 1, Len(blogs), 10))
                        /\ pc' = "image"
                        /\ UNCHANGED audios
                   ELSE AfterImages
                /\ UNCHANGED <<key, session_state, shown, clicked, research,
                               blogs, content, script, folders, researchRet,
                               foldersAtStart>>

\* one iteration of the loop in generate_all_images
generate_image ==
    /\ pc = "image"
    /\ LET i == Len(images) + 1
       IN  /\ \/ /\ calls' = Append(calls, Call("image", i, FALSE, <<>>))
                 /\ images' = Append(images, None)
              \/ \E b \in ImageBytes :
                    /\ calls' = Append(calls, Call("image", i, TRUE, <<>>))
                    /\ images' = Append(images, b)
           /\ IF i < Len(blogs)
              THEN /\ progress' =
                        Append(progress, Pct(55, i + 1, Len(blogs), 10))
                   /\ pc' = "image"
                   /\ UNCHANGED audios
              ELSE AfterImages
    /\ UNCHANGED <<key, session_state, shown, clicked, research, blogs,
                   content, script, folders, researchRet,
                   foldersAtStart>>

\* the loop step of generate_all_audio after entry i was appended
AfterAudio(i) ==
    IF i < Len(blogs)
    THEN /\ progress' = Append(progress, Pct(70, i + 1, Len(blogs), 10))
         /\ pc' = "script"
    ELSE /\ progress' = progress \o <<80, 90>>
         /\ pc' = "save"

generate_podcast_script ==
    /\ pc = "script"
    /\ LET i == Len(audios[1]) + 1
       IN  \/ /\ calls' = Append(calls, Call("script", i, FALSE, <<>>))
              /\ audios' = <<Append(audios[1], None)>>
              /\ AfterAudio(i)
              /\ UNCHANGED script
           \/ /\ calls' = Append(calls, Call("script", i, TRUE, <<>>))
              /\ script' = <<ScriptText>>
              /\ pc' = "speech"
              /\ UNCHANGED <<audios, progress>>
    /\ UNCHANGED <<key, session_state, shown, clicked, research, blogs,
                   images, content, folders, researchRet,
                   foldersAtStart>>

\* generate_all_audio without the try/except around the speech synthesis
generate_audio_call_NoCatch ==
    /\ pc = "speech"
    /\ LET i == Len(audios[1]) + 1
       IN  \/ /\ calls' = Append(calls, Call("speech", i, FALSE, <<>>))
              /\ ToExcept
              /\ UNCHANGED localVars
           \/ \E b \in AudioBytes :
                /\ calls' = Append(calls, Call("speech", i, TRUE, <<>>))
                /\ audios' = <<Append(audios[1], b)>>
                /\ AfterAudio(i)
                /\ script' = <<>>
                /\ UNCHANGED <<key, session_state, shown, clicked, research,
                               blogs, images, content, folders, researchRet,
                               foldersAtStart>>

generate_audio_call ==
    /\ pc = "speech"
    /\ LET i == Len(audios[1]) + 1
       IN  /\ \/ /\ calls' = Append(calls, Call("speech", i, FALSE, <<>>))
                 /\ audios' = <<Append(audios[1], None)>>
              \/ \E b \in AudioBytes :
                    /\ calls' = Append(calls, Call("speech", i, TRUE, <<>>))
                    /\ audios' = <<Append(audios[1], b)>>
           /\ AfterAudio(i)
    /\ script' = <<>>
    /\ UNCHANGED <<key, session_state, shown, clicked, research, blogs,
                   images, content, folders, researchRet,
                   foldersAtStart>>

\* save_outputs(topic, blogs, images, audios): the fourth parameter of
\* save_outputs is base_path
save_outputs ==
    /\ pc = "save"
    /\ IF OutputDirRaises(audios)
       THEN /\ calls' = Append(calls, Call("save", 0, FALSE, <<>>))
            /\ ToExcept
            /\ UNCHANGED localVars
       ELSE LET folder == create_topic_folder(session_state["topic"], folders)
                saved == SavedOutputs(folder, blogs, images)
            IN  /\ calls' = Append(calls, Call("save", 0, TRUE, <<>>))
                /\ folders' = folders \cup {folder}
                /\ progress' = Append(progress, 100)
                /\ session_state' =
                      Put(Put(session_state, "results",
                          <<[topic |-> session_state["topic"],
                             research |-> research[1],
                             blogs |-> blogs,
                             images |-> images,
                             audios |-> audios,
                             saved |-> saved]>>),
                          "step", "results")
                /\ pc' = "main"
                /\ clicked' = NoClick
                /\ ResetLocals
                /\ UNCHANGED <<key, shown, researchRet, foldersAtStart>>

\* an except clause that restarts the script by itself after a failure
except_handler_AutoRetry ==
    /\ pc = "except"
    /\ IF clicked.button = "try_again"
       THEN session_state' = Put(session_state, "step", "input")
       ELSE UNCHANGED session_state
    /\ StRerun
    /\ UNCHANGED <<key, folders, foldersAtStart>>

\* the except clause of show_generating_page
except_handler ==
    /\ pc = "except"
    /\ IF clicked.button = "try_again"
       THEN /\ session_state' = Put(session_state, "step", "input")
            /\ StRerun
       ELSE /\ EndRun("error")
            /\ UNCHANGED session_state
    /\ UNCHANGED <<key, folders, foldersAtStart>>

\* show_results_page fails with an uncaught exception when results is None
\* or when an audio entry is shown (saved has no "audios" key)
ResultsPageRaises(r) ==
    \/ r = <<>>
    \/ /\ r[1].audios # <<>>
       /\ \E i \in 1..Len(r[1].audios[1]) : r[1].audios[1][i] # None

show_results_page ==
    /\ pc = "results_page"
    /\ IF ResultsPageRaises(session_state["results"])
       THEN /\ EndRun("script_error")
            /\ UNCHANGED session_state
       ELSE IF clicked.button = "new_topic"
       THEN /\ session_state' =
                  Put(Put(session_state, "step", "input"), "results", <<>>)
            /\ StRerun
       ELSE /\ EndRun("results")
            /\ UNCHANGED session_state
    /\ UNCHANGED <<key, folders, foldersAtStart>>

Init ==
    /\ fnPc = "off"
    /\ fnIn = <<>>
    /\ fnOut = <<>>
    /\ fnOut2 = <<>>
    /\ key \in KeyValues
    /\ folders \in OutputDirStates
    /\ AppStart

Next ==
    \/ (Rerun /\ UNCHANGED fnVars)
    \/ (ClickGenerate /\ UNCHANGED fnVars)
    \/ (ClickExample /\ UNCHANGED fnVars)
    \/ (ClickTryAgain /\ UNCHANGED fnVars)
    \/ (ClickNewTopic /\ UNCHANGED fnVars)
    \/ (EnvChange /\ UNCHANGED fnVars)
    \/ (main /\ UNCHANGED fnVars)
    \/ (show_input_page /\ UNCHANGED fnVars)
    \/ (show_generating_page /\ UNCHANGED fnVars)
    \/ (research_topic /\ UNCHANGED fnVars)
    \/ (generate_all_blogs /\ UNCHANGED fnVars)
    \/ (generate_blog /\ UNCHANGED fnVars)
    \/ (generate_meta_description /\ UNCHANGED fnVars)
    \/ (generate_image /\ UNCHANGED fnVars)
    \/ (generate_podcast_script /\ UNCHANGED fnVars)
    \/ (generate_audio_call /\ UNCHANGED fnVars)
    \/ (save_outputs /\ UNCHANGED fnVars)
    \/ (except_handler /\ UNCHANGED fnVars)
    \/ (show_results_page /\ UNCHANGED fnVars)

Spec == Init /\ [][Next]_vars

-----------------------------------------------------------------------------
(* parse_research_response applied to a response text *)

InitParse ==
    /\ fnPc = "parse_ready"
    /\ fnIn \in TextInputs
    /\ fnOut = <<>>
    /\ fnOut2 = <<>>
    /\ key = <<>>
    /\ folders = {}
    /\ AppStart

ParseCall ==
    /\ fnPc = "parse_ready"
    /\ IF ParseRaises(fnIn)
       THEN fnOut' = <<>> /\ fnOut2' = <<"IndexError">>
       ELSE fnOut' = parse_research_response(fnIn) /\ fnOut2' = <<>>
    /\ fnPc' = "parse_done"
    /\ UNCHANGED fnIn
    /\ UNCHANGED appVars

NextParse == ParseCall

SpecParse == InitParse /\ [][NextParse]_vars

(* the loop of parse_research_response, one line per step: fnIn holds the
   lines still to read, fnOut2 the lines read, fnOut the locals `sections`,
   `current_section` and `current_content` *)

InitScan ==
    /\ fnPc = "scan"
    /\ fnIn \in ScanInputs
    /\ fnOut = [sections |-> EmptySections,
                current_section |-> "none",
                current_content |-> <<>>]
    /\ fnOut2 = <<>>
    /\ key = <<>>
    /\ folders = {}
    /\ AppStart

\* one iteration of `for line in lines`
ScanLine ==
    /\ fnPc = "scan"
    /\ fnIn # <<>>
    /\ fnOut' = ParseStep(fnOut, Head(fnIn))
    /\ fnIn' = Tail(fnIn)
    /\ fnOut2' = Append(fnOut2, Head(fnIn))
    /\ UNCHANGED fnPc
    /\ UNCHANGED appVars

\* the flush after the loop
ScanEnd ==
    /\ fnPc = "scan"
    /\ fnIn = <<>>
    /\ fnOut' = [fnOut EXCEPT !.sections = Flush(fnOut)]
    /\ fnPc' = "scan_done"
    /\ UNCHANGED <<fnIn, fnOut2>>
    /\ UNCHANGED appVars

NextScan == ScanLine \/ ScanEnd

SpecScan == InitScan /\ [][NextScan]_vars

(* slugify applied to a text, and to its own result *)

InitSlug ==
    /\ fnPc = "slug_ready"
    /\ fnIn \in SlugInputs
    /\ fnOut = <<>>
    /\ fnOut2 = <<>>
    /\ key = <<>>
    /\ folders = {}
    /\ AppStart

SlugCall ==
    /\ fnPc = "slug_ready"
    /\ fnOut' = slugify(fnIn)
    /\ fnPc' = "slug_once"
    /\ UNCHANGED <<fnIn, fnOut2>>
    /\ UNCHANGED appVars

SlugAgain ==
    /\ fnPc = "slug_once"
    /\ fnOut2' = slugify(fnOut)
    /\ fnPc' = "slug_twice"
    /\ UNCHANGED <<fnIn, fnOut>>
    /\ UNCHANGED appVars

NextSlug == SlugCall \/ SlugAgain

SpecSlug == InitSlug /\ [][NextSlug]_vars

(* generate_all_blogs called by show_generating_page with a research dict
   of 0 to MaxResearchAngles angles *)

ResearchDicts ==
    {[summary |-> LnDetail, key_facts |-> <<>>, angles |-> as,
      sources |-> <<>>, raw_response |-> <<>>] :
        as \in SeqsUpTo(
            {[title |-> <<"B","o","l","d"," ","A","n","g","l","e">>,
              description |-> LnDetail],
             [title |-> <<"O","t","h","e","r">>, description |-> <<>>]},
            MaxResearchAngles)}

\* the state in which show_generating_page calls generate_all_blogs
InitBlogs ==
    /\ fnPc = "off"
    /\ fnIn = <<>>
    /\ fnOut = <<>>
    /\ fnOut2 = <<>>
    /\ key = <<RealKey>>
    /\ \E t \in {Strip(TopicA), ExampleTopic} :
          session_state =
              Put(Put(Put(Put(EmptyDict, "step", "generating"),
                  "results", <<>>), "topic", t), "image_style", "realistic")
    /\ pc = "blogs"
    /\ shown = "input"
    /\ clicked = NoClick
    /\ research \in {<<d>> : d \in ResearchDicts}
    /\ researchRet = research
    /\ blogs = <<>>
    /\ images = <<>>
    /\ audios = <<>>
    /\ content = <<>>
    /\ script = <<>>
    /\ progress = <<0, 10, 20, 25>>
    /\ folders = {}
    /\ calls = <<Call("research", 0, TRUE, <<>>)>>
    /\ foldersAtStart = {}

NextBlogs ==
    \/ (generate_all_blogs /\ UNCHANGED fnVars)
    \/ (generate_blog /\ UNCHANGED fnVars)
    \/ (generate_meta_description /\ UNCHANGED fnVars)

SpecBlogs == InitBlogs /\ [][NextBlogs]_vars

(* The angles reducer alone: process_section("angles", content) *)

\* sections of titled markers, markers that are nothing but marker
\* characters ('###', '**', '1.', '2. 3'), plain and blank lines
InitAngles ==
    /\ fnPc = "angles_ready"
    /\ fnIn \in SeqsUpTo({LnAngle1, LnAngle2, LnDetail, LnMarkerOnly,
                          <<"*", "*">>, LnTwoChars, <<"2", ".", " ", "3">>,
                          LnBlank}, MaxMarkerLines)
    /\ fnOut = <<>>
    /\ fnOut2 = <<>>
    /\ key = <<>>
    /\ folders = {}
    /\ AppStart

AnglesCall ==
    /\ fnPc = "angles_ready"
    /\ fnOut' = process_section("angles", fnIn)
    /\ fnPc' = "angles_done"
    /\ UNCHANGED <<fnIn, fnOut2>>
    /\ UNCHANGED appVars

NextAngles == AnglesCall

SpecAngles == InitAngles /\ [][NextAngles]_vars

-----------------------------------------------------------------------------
(* Properties of parse_research_response *)

HasHeader(text) ==
    \E i \in 1..Len(SplitLines(text)) : HeaderOf(SplitLines(text)[i]) # "none"

PlaceholderAngle(n) ==
    [title |-> PerspectivePrefix \o DigitStr(n), description |-> PlaceholderDesc]

\* C1: for every input text the angles field of the parse result has
\* exactly 3 entries.
C1_AnglesAlwaysThree ==
    fnPc = "parse_done" => Len(fnOut.angles) = 3

\* C2: for an input in which no line is a section header, the result has an
\* empty summary, empty key_facts and sources and exactly the 3 placeholder
\* angles.
C2_NoHeadersGivePlaceholders ==
    (fnPc = "parse_done" /\ ~HasHeader(fnIn)) =>
        /\ fnOut.summary = <<>>
        /\ fnOut.key_facts = <<>>
        /\ fnOut.sources = <<>>
        /\ fnOut.angles =
              <<PlaceholderAngle(1), PlaceholderAngle(2), PlaceholderAngle(3)>>

\* the section a text of one header line and a header-free body fills
SoleSection(text) == HeaderOf(Head(SplitLines(text)))

\* the lines after the first line of a text
BodyLines(text) == Tail(SplitLines(text))

HeaderFreeBody(text) ==
    \A i \in 1..Len(BodyLines(text)) : HeaderOf(BodyLines(text)[i]) = "none"

\* length of the list prefix of a trimmed line: one bullet glyph, or a digit
\* followed by '.', ')' or ':'; 0 when the line has no list prefix
ListPrefixLen(line) ==
    IF Len(line) >= 1 /\ line[1] \in {"-", "*", Bullet} THEN 1
    ELSE IF Len(line) >= 2 /\ line[1] \in Digits /\ line[2] \in {".", ")", ":"}
    THEN 2
    ELSE 0

\* the trimmed line with only its list prefix removed, trimmed again
WithoutListPrefix(line) ==
    Strip(SubSeq(Strip(line), ListPrefixLen(Strip(line)) + 1, Len(Strip(line))))

\* the items of the prefixed lines with a non-empty remainder, in line order
RECURSIVE PrefixOnlyItems(_)
PrefixOnlyItems(lines) ==
    IF lines = <<>> THEN <<>>
    ELSE (IF /\ ListPrefixLen(Strip(Head(lines))) > 0
             /\ WithoutListPrefix(Head(lines)) # <<>>
          THEN <<WithoutListPrefix(Head(lines))>> ELSE <<>>)
         \o PrefixOnlyItems(Tail(lines))

\* C11: in a key_facts or sources section every line starting with a bullet
\* glyph or with a digit followed by '.', ')' or ':' yields one item, the
\* line with only that prefix removed and trimmed; the items keep the line
\* order and a line whose remainder is empty yields nothing.
C11_ListItemsLoseOnlyPrefix ==
    (/\ fnPc = "parse_done"
     /\ SoleSection(fnIn) \in {"key_facts", "sources"}
     /\ HeaderFreeBody(fnIn)
     /\ PrefixOnlyItems(BodyLines(fnIn)) # <<>>) =>
        fnOut[SoleSection(fnIn)] = PrefixOnlyItems(BodyLines(fnIn))

\* a line of the body starts, once trimmed, with a list prefix
SomeLineQualifies(lines) ==
    \E i \in 1..Len(lines) : ListPrefixLen(Strip(lines[i])) > 0

\* C21: in a key_facts or sources section without any line qualifying as a
\* list item the result is the one-element list of the joined, trimmed text,
\* or the empty list when that text is blank; with a qualifying line the
\* fallback is not used: the result has one entry per qualifying line with
\* a non-empty remainder.
C21_FallbackOnlyWithoutItems ==
    (/\ fnPc = "parse_done"
     /\ SoleSection(fnIn) \in {"key_facts", "sources"}
     /\ HeaderFreeBody(fnIn)
     /\ BodyLines(fnIn) # <<>>) =>
        LET body == BodyLines(fnIn)
            text == Strip(Join(body, <<"\n">>))
            out == fnOut[SoleSection(fnIn)]
        IN  IF SomeLineQualifies(body)
            THEN Len(out) = Len(PrefixOnlyItems(body))
            ELSE out = IF text = <<>> THEN <<>> ELSE <<text>>

\* C12: the angles reducer returns the k parsed angles in order followed by
\* the placeholders 'Perspective k+1' .. 'Perspective 3' when k < 3, and the
\* first 3 parsed angles in order when k >= 3.
C12_AnglesPaddedOrCut ==
    (/\ fnPc = "parse_done"
     /\ SoleSection(fnIn) = "angles"
     /\ HeaderFreeBody(fnIn)
     /\ BodyLines(fnIn) # <<>>) =>
        LET parsed == ParsedAngles(BodyLines(fnIn))
        IN  /\ Len(fnOut.angles) = 3
            /\ \A i \in 1..3 :
                  fnOut.angles[i] = IF i <= Len(parsed) THEN parsed[i]
                                    ELSE PlaceholderAngle(i)

C12_Witness ==
    /\ fnPc = "parse_done"
    /\ SoleSection(fnIn) = "angles"
    /\ BodyLines(fnIn) = <<LnAngle1, LnAngle2>>
    /\ Len(fnOut.angles) = 3
    /\ fnOut.angles[1].title = <<"B","o","l","d"," ","A","n","g","l","e">>
    /\ fnOut.angles[2].title = <<"O","t","h","e","r">>
    /\ fnOut.angles[3] = PlaceholderAngle(3)

\* C16: parse_research_response raises for no input text (empty, without
\* headers, headers with empty bodies, repeated headers, one- and
\* two-character lines, marker-only lines): it returns a record with the
\* four fields summary, key_facts, angles and sources.
C16_ParseNeverRaises ==
    fnPc = "parse_done" =>
        /\ fnOut2 = <<>>
        /\ DOMAIN fnOut = {"summary", "key_facts", "angles", "sources"}

C16_Witness ==
    /\ fnPc = "parse_done"
    /\ fnIn = Join(<<HdrFacts, LnDigit, LnBlank, LnTwoChars>>, <<"\n">>)
    /\ fnOut2 = <<>>
    /\ fnOut.key_facts = <<Join(<<LnDigit, LnBlank, LnTwoChars>>, <<"\n">>)>>

\* the section a line opens by the four phrases, tried in the order research
\* summary, key facts, blog angles, suggested sources; "none" without phrase
PhraseOf(line) ==
    IF Contains(Lower(line), KwSummary) THEN "summary"
    ELSE IF Contains(Lower(line), KwFacts) THEN "key_facts"
    ELSE IF Contains(Lower(line), KwAngles) THEN "angles"
    ELSE IF Contains(Lower(line), KwSources) THEN "sources"
    ELSE "none"

OpensSection(line) ==
    Len(line) >= 1 /\ line[1] = "#" /\ PhraseOf(line) # "none"

\* C18: a line opens a section iff its first character is '#' and its
\* lowercased text contains one of the four phrases, the first phrase in
\* the fixed order deciding which section; every other line, other headings
\* included, leaves the open section as it is and is appended to its body.
C18_HeaderDetection ==
    [][(fnPc = "scan" /\ fnIn # <<>>) =>
          IF OpensSection(Head(fnIn))
          THEN /\ fnOut'.current_section = PhraseOf(Head(fnIn))
               /\ fnOut'.current_content = <<>>
          ELSE /\ fnOut'.current_section = fnOut.current_section
               /\ fnOut'.sections = fnOut.sections
               /\ fnOut.current_section # "none" =>
                     fnOut'.current_content =
                         Append(fnOut.current_content, Head(fnIn))]_vars

C18_Witness ==
    /\ fnPc = "scan"
    /\ fnOut2 = <<HdrBoth, LnOtherHdr, LnNoHash>>
    /\ fnOut.current_section = "key_facts"
    /\ fnOut.current_content = <<LnOtherHdr, LnNoHash>>

\* a trimmed line starts with a numbered-list marker, '**' or '###'
IsMarkerLine(line) ==
    \/ Len(line) >= 2 /\ line[1] \in Digits /\ line[2] = "."
    \/ StartsWith(line, <<"*", "*">>)
    \/ StartsWith(line, <<"#", "#", "#">>)

\* a marker line without its leading marker characters: heading and bold
\* glyphs, one list number with its dot, the blanks between them; the
\* closing bold glyphs are dropped as well
MarkerTitle(line) ==
    LET a == LStrip(line, {"#", "*", " "})
        b == IF Len(a) >= 2 /\ a[1] \in Digits /\ a[2] = "."
             THEN SubSeq(a, 3, Len(a)) ELSE a
        c == LStrip(b, {"#", "*", " "})
    IN  Strip(RStrip(Strip(c), {"*"}))

\* a description line without its bullet prefix
DescText(line) ==
    IF Len(line) >= 1 /\ line[1] \in {"-", "*", Bullet}
    THEN Strip(Tail(line)) ELSE line

\* the angles scan as spec.md 4.1 words it; an angle is open while its title
\* is non-empty
RECURSIVE MarkerAngles(_, _, _)
MarkerAngles(done, open, lines) ==
    LET closed == IF open.title # <<>> THEN Append(done, open) ELSE done
    IN  IF lines = <<>> THEN closed
        ELSE LET line == Strip(Head(lines))
             IN  IF line = <<>>
                 THEN MarkerAngles(closed, EmptyAngle, Tail(lines))
                 ELSE IF IsMarkerLine(line)
                 THEN MarkerAngles(closed,
                          [title |-> MarkerTitle(line), description |-> <<>>],
                          Tail(lines))
                 ELSE IF open.title # <<>>
                 THEN MarkerAngles(done,
                          [open EXCEPT !.description =
                              IF @ = <<>> THEN DescText(line)
                              ELSE @ \o <<" ">> \o DescText(line)],
                          Tail(lines))
                 ELSE MarkerAngles(done, open, Tail(lines))

\* C20: in the angles reducer a non-blank line starting with a numbered-list
\* marker, '**' or '###' closes the open angle and opens one titled by the
\* line without its leading marker characters; the following non-blank lines,
\* bullet prefix stripped, are space-joined into its description; a blank
\* line or the end closes it; the parsed angles are these records in the
\* order of their marker lines (then padded or cut to 3).
C20_AnglesFollowMarkerLines ==
    (/\ fnPc = "parse_done"
     /\ SoleSection(fnIn) = "angles"
     /\ HeaderFreeBody(fnIn)
     /\ BodyLines(fnIn) # <<>>) =>
        fnOut.angles =
            SubSeq(PadAngles(MarkerAngles(<<>>, EmptyAngle, BodyLines(fnIn))),
                   1, 3)

SectionNames == {"summary", "key_facts", "angles", "sources"}

\* the index of the last line of `lines` that opens section `sec`, else 0
LastHeaderIdx(lines, sec) ==
    MaxOf({0} \cup {i \in 1..Len(lines) :
                       OpensSection(lines[i]) /\ PhraseOf(lines[i]) = sec})

\* the lines after line i up to the next section header or the end
BodyAfter(lines, i) ==
    LET nxt == {j \in (i + 1)..Len(lines) : OpensSection(lines[j])}
    IN  SubSeq(lines, i + 1, IF nxt = {} THEN Len(lines) ELSE MinOf(nxt) - 1)

\* C19: at the end of the input every section whose header occurred holds
\* its reducer applied to exactly the lines between its (last) header and
\* the next section header or the end of the input, also when there are no
\* such lines and when the header occurred more than once.
C19_FlushStoresReducedBody ==
    fnPc = "scan_done" =>
        \A sec \in SectionNames :
            LastHeaderIdx(fnOut2, sec) > 0 =>
                fnOut.sections[sec] =
                    process_section(sec,
                        BodyAfter(fnOut2, LastHeaderIdx(fnOut2, sec)))

\* the title the reducer takes from a marker line
TitleOf(line) ==
    Strip(RStrip(Strip(LStrip(Strip(line), TitleLeadChars)), {"*"}))

\* a marker line that is empty once its marker characters are stripped
UntitledMarker(line) == IsTitleLine(Strip(line)) /\ TitleOf(line) = <<>>

\* the section without its untitled marker lines and without the lines that
\* follow each of them up to the next marker line
RECURSIVE WithoutUntitledRuns(_, _)
WithoutUntitledRuns(lines, skipping) ==
    IF lines = <<>> THEN <<>>
    ELSE IF IsTitleLine(Strip(Head(lines)))
    THEN IF UntitledMarker(Head(lines))
         THEN WithoutUntitledRuns(Tail(lines), TRUE)
         ELSE <<Head(lines)>> \o WithoutUntitledRuns(Tail(lines), FALSE)
    ELSE IF skipping
    THEN WithoutUntitledRuns(Tail(lines), TRUE)
    ELSE <<Head(lines)>> \o WithoutUntitledRuns(Tail(lines), FALSE)

\* the number of marker lines with a title
TitledMarkers(lines) ==
    Cardinality({i \in 1..Len(lines) :
        IsTitleLine(Strip(lines[i])) /\ ~UntitledMarker(lines[i])})

\* C25: every angle the angles reducer returns has a non-empty title; a
\* marker line that is empty once its marker characters are stripped gives
\* no angle, and the lines after it belong to no angle until the next marker
\* line with a title: the result has one parsed angle per titled marker
\* line (3 at most) and is the result for the section without those lines.
C25_TitlesNonEmpty ==
    fnPc = "angles_done" =>
        /\ Len(fnOut) = 3
        /\ \A i \in 1..3 : fnOut[i].title # <<>>
        /\ \A i \in 1..3 :
              fnOut[i] = PlaceholderAngle(i) <=> i > TitledMarkers(fnIn)
        /\ fnOut = process_section("angles", WithoutUntitledRuns(fnIn, FALSE))

C25_Witness ==
    /\ fnPc = "angles_done"
    /\ fnIn = <<LnAngle2, LnMarkerOnly, LnDetail, LnAngle1>>
    /\ fnOut[1] = [title |-> <<"O","t","h","e","r">>, description |-> <<>>]
    /\ fnOut[2].title = <<"B","o","l","d"," ","A","n","g","l","e">>
    /\ fnOut[3] = PlaceholderAngle(3)

-----------------------------------------------------------------------------
(* Properties of slugify *)

\* C3: slugify is idempotent, slugify(slugify(x)) = slugify(x), also for
\* inputs cut by the length limit.
C3_SlugifyIdempotent ==
    fnPc = "slug_twice" => fnOut2 = fnOut

Alphanumerics == Range(LowerLetters) \cup Range(UpperLetters) \cup Digits

\* C4: the slug is at most 50 characters drawn from a-z, 0-9 and '-', and it
\* is exactly "untitled" whenever the input leaves nothing after cleaning.
C4_SlugShape ==
    fnPc \in {"slug_once", "slug_twice"} =>
        /\ Len(fnOut) <= 50
        /\ Range(fnOut) \subseteq Range(LowerLetters) \cup Digits \cup {"-"}
        /\ (Range(fnIn) \cap Alphanumerics = {}) => fnOut = Untitled

C4_Witness ==
    /\ fnPc = "slug_once"
    /\ Len(fnIn) > 50
    /\ Len(fnOut) = 50
    /\ fnOut[50] = "-"

\* C17: the slug neither begins nor ends with a hyphen and has no two
\* consecutive hyphens, also for inputs longer than 50 characters.
C17_SlugHyphensTrimmed ==
    fnPc \in {"slug_once", "slug_twice"} =>
        /\ fnOut # <<>>
        /\ fnOut[1] # "-"
        /\ fnOut[Len(fnOut)] # "-"
        /\ \A i \in 1..(Len(fnOut) - 1) : ~(fnOut[i] = "-" /\ fnOut[i + 1] = "-")

-----------------------------------------------------------------------------
(* Properties of the generation pipeline *)

step == Get(session_state, "step", "unset")

results == Get(session_state, "results", <<>>)

LastCall == calls[Len(calls)]

CallKey(k) == <<calls[k].call, calls[k].item>>

InPipeline == pc \in {"image", "script", "speech", "save", "except"}

\* C5: generate_all_images yields one entry per blog, in blog order; entry
\* i is None iff the image call for blog i raised and the returned bytes
\* otherwise; a failed image call never ends the run.
C5_ImagesOnePerBlog ==
    /\ InPipeline =>
          /\ Len(images) = Cardinality({k \in 1..Len(calls) :
                                           calls[k].call = "image"})
          /\ \A i \in 1..Len(images) :
                \E k \in 1..Len(calls) :
                    /\ CallKey(k) = <<"image", i>>
                    /\ images[i] = None <=> ~calls[k].ok
                    /\ calls[k].ok => images[i] \in ImageBytes
    /\ pc \in {"script", "speech", "save"} =>
          (Len(images) = Len(blogs) /\ Len(blogs) = 3)
    /\ (pc = "except" /\ calls # <<>>) => LastCall.call # "image"

C5_Witness ==
    /\ pc = "save"
    /\ images = <<"png", None, "png">>
    /\ Len(blogs) = 3

\* C6: when the research call, a content draft or a meta-description call
\* raises, no further call is made in that run, save_outputs is not called,
\* no folder is created, results stay unset and the step is not "results".
C6_DraftFailureAborts ==
    \A k \in 1..Len(calls) :
        (calls[k].call \in {"research", "content", "meta"} /\ ~calls[k].ok) =>
            /\ k = Len(calls)
            /\ pc \in {"except", "main"}
            /\ results = <<>>
            /\ step # "results"
            /\ folders = foldersAtStart

C6_Witness ==
    /\ pc = "except"
    /\ Len(calls) = 5
    /\ LastCall = Call("meta", 2, FALSE, <<>>)
    /\ Len(blogs) = 1

\* C7: with audio overviews enabled and every generation call succeeding,
\* the 3 audio overviews are generated, save_outputs completes and the run
\* ends in the "results" step with results stored.
C7_AudioRunIsSaved ==
    (/\ want_audio
     /\ calls # <<>>
     /\ LastCall.call = "save"
     /\ \A k \in 1..(Len(calls) - 1) : calls[k].ok) =>
        /\ LastCall.ok
        /\ step = "results"
        /\ results # <<>>

\* the calls of a run in program order, speech synthesis left out
CanonicalOrder(audio) ==
    <<<<"research", 0>>,
      <<"content", 1>>, <<"meta", 1>>,
      <<"content", 2>>, <<"meta", 2>>,
      <<"content", 3>>, <<"meta", 3>>,
      <<"image", 1>>, <<"image", 2>>, <<"image", 3>>>>
    \o (IF audio THEN <<<<"script", 1>>, <<"script", 2>>, <<"script", 3>>>>
        ELSE <<>>)
    \o <<<<"save", 0>>>>

IsPrefix(a, b) == Len(a) <= Len(b) /\ a = SubSeq(b, 1, Len(a))

CallKeys == [k \in 1..Len(calls) |-> CallKey(k)]

\* C8: the calls of a run are issued one after another in the order
\* research, content and meta-description per blog, image per blog, then
\* only with audio enabled script and speech per blog, then persistence.
C8_CallOrder ==
    /\ IsPrefix(SelectSeq(CallKeys, LAMBDA c : c[1] # "speech"),
                CanonicalOrder(want_audio))
    /\ \A k \in 1..Len(calls) :
          /\ calls[k].call = "speech" =>
                /\ k > 1
                /\ CallKey(k - 1) = <<"script", calls[k].item>>
                /\ calls[k - 1].ok
          /\ (calls[k].call = "script" /\ calls[k].ok /\ k < Len(calls)) =>
                CallKey(k + 1) = <<"speech", calls[k].item>>

C8_Witness ==
    /\ Len(calls) = 17
    /\ LastCall.call = "save"
    /\ CallKey(15) = <<"script", 3>>
    /\ CallKey(16) = <<"speech", 3>>

KeyMissing ==
    \/ key = <<>>
    \/ key[1] = <<>>
    \/ StartsWith(key[1], <<"y", "o", "u", "r", "-">>)

\* C9: when GOOGLE_API_KEY is unset, empty or starts with "your-", main
\* returns before dispatching a page: no call is made, nothing is written
\* and the session step and results stay as they are.
C9_MissingKeyBlocks ==
    [][(pc = "main" /\ KeyMissing) =>
          /\ pc' = "idle"
          /\ shown' = "keyerror"
          /\ calls' = <<>>
          /\ folders' = folders
          /\ step' = (IF step = "unset" THEN "input" ELSE step)
          /\ results' = results]_vars

C9_Witness ==
    /\ pc = "idle"
    /\ shown = "keyerror"
    /\ step = "generating"
    /\ key = <<PlaceholderKey>>

\* C10: once research_topic has returned, no later stage modifies the
\* research dict: it equals what research_topic returned, during the run
\* and in the stored results.
C10_ResearchUnmodified ==
    /\ (research # <<>> /\ researchRet # <<>>) => research[1] = researchRet[1]
    /\ (results # <<>> /\ researchRet # <<>>) =>
          results[1].research = researchRet[1]

\* the call c for item i was issued in this script run
CallMade(c, i) ==
    \E k \in 1..Len(calls) : calls[k].call = c /\ calls[k].item = i

CallOk(c, i) ==
    \E k \in 1..Len(calls) :
        calls[k].call = c /\ calls[k].item = i /\ calls[k].ok

CallFailed(c, i) ==
    \E k \in 1..Len(calls) :
        calls[k].call = c /\ calls[k].item = i /\ ~calls[k].ok

\* C14: generate_all_audio yields one entry per blog in blog order; entry i
\* is None when the script call or the speech call for blog i raised and the
\* audio bytes otherwise; no speech call follows a failed script call; the
\* loop goes on to blog i+1 and no failure of either call ends the run.
C14_AudioOnePerBlog ==
    /\ (audios # <<>> /\ pc \in {"script", "speech", "save", "except"}) =>
          /\ \A i \in 1..Len(audios[1]) :
                /\ CallMade("script", i)
                /\ audios[1][i] = None <=>
                      (CallFailed("script", i) \/ CallFailed("speech", i))
                /\ audios[1][i] # None =>
                      /\ audios[1][i] \in AudioBytes
                      /\ CallOk("script", i) /\ CallOk("speech", i)
          /\ \A i \in 1..3 :
                /\ CallFailed("script", i) => ~CallMade("speech", i)
                /\ CallMade("script", i) => i <= Len(audios[1]) + 1
                /\ CallMade("speech", i) => i <= Len(audios[1])
          /\ pc = "script" => Len(audios[1]) < Len(blogs)
          /\ pc \in {"save", "except"} => Len(audios[1]) = Len(blogs)
    /\ (pc = "except" /\ calls # <<>>) =>
          LastCall.call \notin {"script", "speech"}

C14_Witness ==
    /\ pc = "save"
    /\ audios = << <<None, None, "wav">> >>
    /\ CallFailed("script", 1)
    /\ CallOk("script", 2) /\ CallFailed("speech", 2)
    /\ CallOk("script", 3) /\ CallOk("speech", 3)

\* the steps by which the user starts a script run
UserEvent ==
    Rerun \/ ClickGenerate \/ ClickExample \/ ClickTryAgain \/ ClickNewTopic

\* the items a call may be issued for
CallItems(c) == IF c \in {"research", "save"} THEN {0} ELSE 1..3

\* C15: within one execution every external call is issued at most once per
\* item (research and save once, the others once per blog); a script run
\* that logged a failed call never enters the pipeline again by itself, and
\* only a user event starts a script run once the script has ended.
C15_NoRetries ==
    [][/\ (calls' # calls /\ calls' # <<>>) =>
             /\ Len(calls') = Len(calls) + 1
             /\ SubSeq(calls', 1, Len(calls)) = calls
             /\ calls'[Len(calls')].item \in CallItems(calls'[Len(calls')].call)
             /\ \A k \in 1..Len(calls) :
                   CallKey(k) # <<calls'[Len(calls')].call,
                                  calls'[Len(calls')].item>>
       /\ (pc = "main" /\ \E k \in 1..Len(calls) : ~calls[k].ok) =>
             pc' # "generating_page"
       /\ (pc = "idle" /\ pc' # "idle") => UserEvent]_vars

C15_Witness ==
    /\ pc = "main"
    /\ step = "input"
    /\ Len(calls) = 4
    /\ CallKey(4) = <<"content", 2>>
    /\ ~LastCall.ok

\* the angle draft k is written from: the k-th angle research_topic
\* returned, or '<topic> - Perspective k' when it returned fewer than k
DraftAngle(k) ==
    IF k <= Len(researchRet[1].angles) THEN researchRet[1].angles[k]
    ELSE [title |-> session_state["topic"] \o BlogPerspectiveInfix
                        \o DigitStr(k),
          description |-> BlogPlaceholderDesc]

ContentCalls == SelectSeq(calls, LAMBDA c : c.call = "content")

\* C22: generate_all_blogs drafts post k from the k-th of the first three
\* angles (a missing one replaced by '<topic> - Perspective k'), reports
\* (k, 3) right before draft k, and returns exactly 3 posts when no drafting
\* call fails, whatever the number of angles in the research dict.
C22_ThreeBlogsInAngleOrder ==
    /\ Len(ContentCalls) <= 3
    /\ \A k \in 1..Len(ContentCalls) :
          /\ ContentCalls[k].item = k
          /\ ContentCalls[k].arg = DraftAngle(k)
    /\ pc \in {"content", "meta"} =>
          /\ Len(blogs) < 3
          /\ progress = <<0, 10, 20, 25>> \o
                [k \in 1..(Len(blogs) + 1) |-> 25 + (k * 25) \div 3]
          /\ Len(ContentCalls) = Len(blogs) + (IF pc = "meta" THEN 1 ELSE 0)
    /\ pc = "except" => ~LastCall.ok
    /\ pc = "image" => Len(blogs) = 3 /\ Len(ContentCalls) = 3

C22_Witness ==
    /\ pc = "image"
    /\ Len(blogs) = 3
    /\ Len(researchRet[1].angles) = 1
    /\ ContentCalls[1].arg.title = <<"O","t","h","e","r">>
    /\ ContentCalls[3].arg.title =
          Strip(TopicA) \o BlogPerspectiveInfix \o <<"3">>

\* C23: the values given to the progress bar during one run are integers in
\* 0..100 that never decrease, and 100 is given only as the last value,
\* after save_outputs has returned successfully.
C23_ProgressMonotone ==
    /\ \A i \in 1..Len(progress) : progress[i] \in 0..100
    /\ \A i \in 1..(Len(progress) - 1) : progress[i] <= progress[i + 1]
    /\ \A i \in 1..Len(progress) :
          progress[i] = 100 =>
              /\ i = Len(progress)
              /\ calls # <<>>
              /\ LastCall.call = "save"
              /\ LastCall.ok

C23_Witness ==
    progress = <<0, 10, 20, 25, 33, 41, 50, 50, 55, 58, 61, 65, 65, 90, 100>>

\* a script run has ended and the session waits for the next user event
RunBoundary == pc = "idle" /\ shown # "none"

\* step is one of the three pages and results are stored exactly on the
\* results step
SessionConsistent ==
    /\ step \in {"input", "generating", "results"}
    /\ results # <<>> <=> step = "results"

\* the script run started by a click on 'Try Again' (with the API key in
\* place) is over: the click was consumed by st.rerun() or by the end of
\* the script
TryAgainRunOver ==
    /\ clicked.button = "try_again"
    /\ clicked'.button # "try_again"
    /\ check_api_keys(key) = <<>>

\* C24: at every script-run boundary step is 'input', 'generating' or
\* 'results' and results are stored exactly when step is 'results'; the
\* script run started by 'Try Again' after a failed run leaves the session
\* on step 'input' with no results.
C24_SessionInvariant ==
    [][/\ RunBoundary' => SessionConsistent'
       /\ TryAgainRunOver => (step' = "input" /\ results' = <<>>)]_vars

-----------------------------------------------------------------------------
(* Properties of the output folders *)

NumberedFolder(slug, n) == slug \o <<"-">> \o DigitStr(n)

\* C13: a successful save_outputs writes into a folder that did not exist
\* before the call: the plain topic-slug folder if it is free, otherwise
\* '<slug>-N' for the smallest N >= 1 that is free; no existing folder is
\* written into or removed.
C13_FreshFolder ==
    [][calls' = Append(calls, Call("save", 0, TRUE, <<>>)) =>
          LET slug == slugify(session_state["topic"])
              folder == results'[1].saved.folder
          IN  /\ folder \notin folders
              /\ folders' = folders \cup {folder}
              /\ IF slug \notin folders THEN folder = slug
                 ELSE \E n \in 1..9 :
                        /\ folder = NumberedFolder(slug, n)
                        /\ \A m \in 1..(n - 1) :
                              NumberedFolder(slug, m) \in folders]_vars

C13_Witness ==
    /\ step = "results"
    /\ results # <<>>
    /\ results[1].saved.folder = NumberedFolder(slugify(TopicA), 1)
    /\ folders = {slugify(TopicA), NumberedFolder(slugify(TopicA), 1),
                  NumberedFolder(slugify(TopicA), 2)}

====
